---- MODULE Spec2Model ----
(***************************************************************************)
(* A model of kafka-kit's autothrottle admin API (the throttle override    *)
(* record kept in ZooKeeper and its HTTP handlers) and of the Limits       *)
(* engine (NewLimits, headroom, replicationHeadroom).                      *)
(*                                                                         *)
(* Numbers.  The Limits engine computes in float64.  Every input drawn     *)
(* below is an integer and every ratio x/100 that is reached is a multiple *)
(* of 1/4, so the float64 results are exact; the model keeps them exact by *)
(* returning rates in hundredths of MB/s (the code's value times Percent). *)
(*                                                                         *)
(* Strings.  Response bodies are TLA+ strings.  Bytes that the code parses *)
(* (the znode's data, the query parameters) are sequences of one-character *)
(* strings, so that Atoi, ParseBool and the JSON codec are computed        *)
(* character by character.                                                 *)
(***************************************************************************)
EXTENDS Integers, Sequences, FiniteSets, TLC

VARIABLES
    limCfg,     \* the NewLimitsConfig handed to NewLimits
    limPc,      \* "config" before NewLimits ran, then "ready" or "failed"; "called"
                \* once a rate function was applied to the Limits
    limits,     \* what NewLimits returned: [lim, err]
    call,       \* the last headroom / replicationHeadroom call and its outcome
    zk,         \* the override znode: [exists, data]
    seed,       \* the override znode as it was before initAPI ran, remembered until a
                \* request or the control loop replaces the record initAPI left
    pc,         \* "boot" before initAPI, then "serving" or "fatal"
    initGet,    \* how initAPI's zk.Get ended: "none" (not called), "ok" or "failed";
                \* remembered as long as seed is
    pending,    \* per API client: the write a handler is about to send
    resp,       \* the last HTTP response written, the request it answers and the
                \* ZooKeeper call its handler made
    lastWrite   \* the request behind the last write applied to the znode

limVars == <<limCfg, limPc, limits, call>>
apiVars == <<zk, seed, pc, initGet, pending, resp, lastWrite>>
vars == <<limCfg, limPc, limits, call, zk, seed, pc, initGet, pending, resp, lastWrite>>

Max(a, b) == IF a >= b THEN a ELSE b

(***************************************************************************)
(* Bounds of the model.                                                    *)
(***************************************************************************)
\* utilization figures are 0, 40, ..., 40 * MaxNetSteps MB/s
MaxNetSteps == 3
\* previous throttle rates are 0, 40, ..., 40 * MaxRateSteps MB/s
MaxRateSteps == 2

(***************************************************************************)
(* Limits engine                                                           *)
(***************************************************************************)
\* the divisor of l["maximum"]/100 and maxRatio/100
Percent == 100

EmptyMap == [k \in {} |-> 0]

\* Minimum and the three portions offered to NewLimits
MinimumValues == {-5, 0, 10, 50}
PortionValues == {0, 50, 100, 101}

\* keys and values of the capacity maps offered to NewLimits
CapKeys == {"d2.xlarge", "minimum", "maximum"}
CapValues == {-50, 25, 100}
CapacityMaps == UNION {[S -> CapValues] : S \in SUBSET CapKeys}

NewLimitsConfigs ==
    [Minimum : MinimumValues, Maximum : PortionValues,
     SourceMaximum : PortionValues, DestinationMaximum : PortionValues,
     CapacityMap : CapacityMaps]

\* a portion field that NewLimits rejects (PortionRejectedUpTo100: with 100 rejected too)
PortionRejectedUpTo100(p) == p <= 0 \/ p >= 100
PortionRejected(p) == p <= 0 \/ p > 100

\* the error NewLimits returns for c, "" when it accepts c
NewLimitsError(c) ==
    CASE c.Minimum <= 0 -> "minimum must be > 0"
      [] PortionRejected(c.Maximum) -> "maximum must be > 0 and < 100"
      [] PortionRejected(c.SourceMaximum) -> "source maximum must be > 0 and < 100"
      [] PortionRejected(c.DestinationMaximum) -> "destination maximum must be > 0 and < 100"
      [] OTHER -> ""

\* the min/max vals populated into the Limits map
ScalarKeys == {"minimum", "maximum", "srcMax", "dstMax"}
ScalarFields(c) ==
    [k \in ScalarKeys |->
        CASE k = "minimum" -> c.Minimum
          [] k = "maximum" -> c.Maximum
          [] k = "srcMax" -> c.SourceMaximum
          [] k = "dstMax" -> c.DestinationMaximum]

\* for k, v := range c.CapacityMap { lim[k] = v }
MergeCapacityMap(base, cm) ==
    [k \in (DOMAIN base) \cup (DOMAIN cm) |-> IF k \in DOMAIN cm THEN cm[k] ELSE base[k]]

NewLimits(c) ==
    IF NewLimitsError(c) # ""
    THEN [lim |-> EmptyMap, err |-> NewLimitsError(c)]
    ELSE [lim |-> MergeCapacityMap(ScalarFields(c), c.CapacityMap), err |-> ""]

\* *kafkametrics.Broker: nil, or the three fields the engine reads
NilBroker == [nil |-> TRUE, InstanceType |-> "", NetTX |-> 0, NetRX |-> 0]
InstanceTypes == {"d2.xlarge", "i3.large", "minimum", "maximum"}
NetValues == {40 * k : k \in 0..MaxNetSteps}
RateValues == {40 * k : k \in 0..MaxRateSteps}
Brokers ==
    {NilBroker} \cup
    [nil : {FALSE}, InstanceType : InstanceTypes, NetTX : NetValues, NetRX : NetValues]

\* replicaType values: the source role is "leader", the destination role "follower"
ReplicaTypes == {"leader", "follower", "observer"}

\* math.Max(b.NetTX-t, 0.00)
NonThrottleUtil(netTX, t) == Max(netTX - t, 0)

\* math.Max(util-capacity, 0.00)
OverCap(util, capacity) == Max(util - capacity, 0)

\* math.Max((capacity-nonThrottleUtil-overCap)*(ratio/100), minimum), times Percent
Rate(capacity, nonThrottleUtil, overCap, ratio, minimum) ==
    Max((capacity - nonThrottleUtil - overCap) * ratio, minimum * Percent)

Returned(r, e) == [outcome |-> "return", rate |-> r, err |-> e]
\* a nil pointer dereference: the call panics and returns nothing
Panicked == [outcome |-> "panic", rate |-> 0, err |-> ""]

headroom(l, b, t) ==
    IF b.nil
    THEN Returned(l["minimum"] * Percent, "Nil broker provided")
    ELSE IF b.InstanceType \in DOMAIN l
    THEN LET capacity == l[b.InstanceType]
             nonThrottleUtil == NonThrottleUtil(b.NetTX, t)
             overCap == OverCap(b.NetTX, capacity)
         IN  Returned(Rate(capacity, nonThrottleUtil, overCap, l["maximum"], l["minimum"]), "")
    ELSE Returned(l["minimum"] * Percent, "Unknown instance type")

\* the switch on rt: which utilization and which portion the role selects
\* (RoleUtilizationAlwaysTX: outbound for either role)
RoleUtilizationAlwaysTX(b, rt) == b.NetTX
RoleUtilization(b, rt) == IF rt = "leader" THEN b.NetTX ELSE b.NetRX
RoleMaxRatio(l, rt) == IF rt = "leader" THEN l["srcMax"] ELSE l["dstMax"]

replicationHeadroom(l, b, rt, prevThrottle) ==
    IF rt \notin {"leader", "follower"}
    THEN Returned(0, "invalid replica type")
    ELSE IF b.nil
    THEN Panicked
    ELSE LET currNetUtilization == RoleUtilization(b, rt)
             maxRatio == RoleMaxRatio(l, rt)
         IN  IF b.InstanceType \in DOMAIN l
             THEN LET capacity == l[b.InstanceType]
                      nonThrottleUtil == NonThrottleUtil(b.NetTX, prevThrottle)
                      overCap == OverCap(currNetUtilization, capacity)
                  IN  Returned(Rate(capacity, nonThrottleUtil, overCap, maxRatio, l["minimum"]), "")
             ELSE Returned(l["minimum"] * Percent, "Unknown instance type")

NoCall ==
    [fn |-> "none", b |-> NilBroker, rt |-> "", t |-> 0, out |-> Returned(0, "")]

(***************************************************************************)
(* Text: strconv.Atoi, strconv.ParseBool, %d and %v, the JSON record       *)
(***************************************************************************)
DigitChars == <<"0", "1", "2", "3", "4", "5", "6", "7", "8", "9">>
IsDigit(ch) == \E i \in 1..10 : DigitChars[i] = ch
DigitValue(ch) == (CHOOSE i \in 1..10 : DigitChars[i] = ch) - 1

RECURSIVE NatChars(_)
NatChars(n) == IF n < 10 THEN <<DigitChars[n + 1]>>
               ELSE NatChars(n \div 10) \o <<DigitChars[(n % 10) + 1]>>
\* the decimal text of an int (strconv.Itoa, fmt's %d, encoding/json's integers)
Itoa(n) == IF n < 0 THEN <<"-">> \o NatChars(-n) ELSE NatChars(n)

\* the string made of a sequence of characters
RECURSIVE Str(_)
Str(cs) == IF cs = <<>> THEN "" ELSE Head(cs) \o Str(Tail(cs))

RECURSIVE NatValue(_)
NatValue(cs) == IF cs = <<>> THEN 0
                ELSE 10 * NatValue(SubSeq(cs, 1, Len(cs) - 1)) + DigitValue(cs[Len(cs)])
\* strconv.Atoi: an optional sign, then one or more decimal digits
Atoi(cs) ==
    LET signed == cs # <<>> /\ cs[1] \in {"+", "-"}
        digits == IF signed THEN Tail(cs) ELSE cs
    IN  IF digits # <<>> /\ \A i \in 1..Len(digits) : IsDigit(digits[i])
        THEN [ok |-> TRUE,
              value |-> IF signed /\ cs[1] = "-" THEN -NatValue(digits) ELSE NatValue(digits)]
        ELSE [ok |-> FALSE, value |-> 0]

\* fmt's %v of a bool
BoolText(b) == IF b THEN "true" ELSE "false"
BoolChars(b) == IF b THEN <<"t", "r", "u", "e">> ELSE <<"f", "a", "l", "s", "e">>

\* strconv.ParseBool
TrueTexts == {<<"1">>, <<"t">>, <<"T">>, <<"T", "R", "U", "E">>, <<"t", "r", "u", "e">>,
              <<"T", "r", "u", "e">>}
FalseTexts == {<<"0">>, <<"f">>, <<"F">>, <<"F", "A", "L", "S", "E">>,
               <<"f", "a", "l", "s", "e">>, <<"F", "a", "l", "s", "e">>}
ParseBool(cs) == [ok |-> cs \in TrueTexts \cup FalseTexts, value |-> cs \in TrueTexts]

\* ThrottleOverrideConfig{Rate, AutoRemove} and its stored form
\* {"rate":<int>,"autoremove":<bool>}
RateKey == <<"{", "\"", "r", "a", "t", "e", "\"", ":">>
AutoRemoveKey == <<",", "\"", "a", "u", "t", "o", "r", "e", "m", "o", "v", "e", "\"", ":">>
Marshal(c) == RateKey \o Itoa(c.rate) \o AutoRemoveKey \o BoolChars(c.autoRemove) \o <<"}">>

ZeroConfig == [rate |-> 0, autoRemove |-> FALSE]

\* The inverse of Marshal; any other text is a decode error.  (Every value the znode
\* holds in this model is a seed below or a Marshal result.)
Unmarshal(cs) ==
    LET comma == IF \E i \in 1..Len(cs) : cs[i] = ","
                 THEN CHOOSE i \in 1..Len(cs) : cs[i] = "," /\ \A j \in 1..(i - 1) : cs[j] # ","
                 ELSE 0
        rate == Atoi(SubSeq(cs, Len(RateKey) + 1, comma - 1))
        rest == SubSeq(cs, comma, Len(cs))
        wellFormed ==
            /\ comma > Len(RateKey) + 1
            /\ SubSeq(cs, 1, Len(RateKey)) = RateKey
            /\ rate.ok
            /\ \E b \in BOOLEAN : rest = AutoRemoveKey \o BoolChars(b) \o <<"}">>
    IN  IF wellFormed
        THEN [ok |-> TRUE,
              cfg |-> [rate |-> rate.value,
                       autoRemove |-> rest = AutoRemoveKey \o BoolChars(TRUE) \o <<"}">>]]
        ELSE [ok |-> FALSE, cfg |-> ZeroConfig]

(***************************************************************************)
(* The override znode and the admin API                                    *)
(***************************************************************************)
\* the two concurrent API clients and the control loop, the writers of the znode
Clients == {"c1", "c2"}
Writers == Clients \cup {"loop"}

\* what the znode may hold before initAPI runs
SeedData ==
    {<<>>, <<"1", "5", "0">>, <<"a", "b", "c">>,
     Marshal([rate |-> 200, autoRemove |-> TRUE])}
Seeds == {[exists |-> FALSE, data |-> <<>>]} \cup [exists : {TRUE}, data : SeedData]
\* nothing of what initAPI found is left in the znode: a later write replaced it whole
SeedReplaced == [exists |-> FALSE, data |-> <<>>]

\* the requests the clients send
Methods == {"GET", "POST", "DELETE"}
Paths ==
    {"/throttle", "/throttle/", "/throttle/remove", "/throttle/remove/",
     "/get_throttle", "/set_throttle", "/remove_throttle"}
RateParams == {<<>>, <<"a", "b", "c">>, <<"0">>, <<"2", "0", "0">>, <<"-", "5">>}
AutoRemoveParams == {<<>>, <<"t", "r", "u", "e">>, <<"f", "a", "l", "s", "e">>, <<"m", "a", "y", "b", "e">>}

incorrectMethod == "disallowed method\n"
\* the text of an error of the ZooKeeper client
ZkErrorText == "zk: could not connect to a server"

ZkGetErrorText == "Error getting throttle override: " \o ZkErrorText

\* the mux routes of initAPI
Route(path) ==
    CASE path \in {"/throttle", "/throttle/"} -> "throttleGetSet"
      [] path \in {"/throttle/remove", "/throttle/remove/"} -> "throttleRemove"
      [] path = "/get_throttle" -> "getThrottleDeprecated"
      [] path = "/set_throttle" -> "setThrottleDeprecated"
      [] path = "/remove_throttle" -> "removeThrottleDeprecated"

getThrottleOverride(data) ==
    IF data = <<>> THEN [ok |-> TRUE, cfg |-> ZeroConfig, err |-> ""]
    ELSE IF Unmarshal(data).ok THEN [ok |-> TRUE, cfg |-> Unmarshal(data).cfg, err |-> ""]
    ELSE [ok |-> FALSE, cfg |-> ZeroConfig, err |-> "Error unmarshalling override config"]

\* setThrottleOverride: the whole record, serialized, replaces the znode's data
setThrottleOverride(c) == Marshal(c)

parseRateParam(r) ==
    CASE r = <<>> -> [ok |-> FALSE, value |-> 0, err |-> "rate param must be supplied"]
      [] r # <<>> /\ ~Atoi(r).ok ->
            [ok |-> FALSE, value |-> 0, err |-> "rate param must be supplied as an integer"]
      [] OTHER -> [ok |-> TRUE, value |-> Atoi(r).value, err |-> ""]

parseAutoRemoveParam(a) ==
    CASE a = <<>> -> [ok |-> TRUE, value |-> FALSE, err |-> ""]
      [] a # <<>> /\ ~ParseBool(a).ok ->
            [ok |-> FALSE, value |-> FALSE, err |-> "autoremove param must be a bool"]
      [] OTHER -> [ok |-> TRUE, value |-> ParseBool(a).value, err |-> ""]

\* ThrottleOverrideConfig{Rate: rate} of the legacy migration
MigratedCfg(rate) == [rate |-> rate, autoRemove |-> FALSE]

\* rateCfg of setThrottle (SetThrottleCfgRateOnly: with AutoRemove left unset)
SetThrottleCfgRateOnly(rate, autoRemove) == [rate |-> rate, autoRemove |-> FALSE]
SetThrottleCfg(rate, autoRemove) == [rate |-> rate, autoRemove |-> autoRemove]

\* c of removeThrottle
RemoveThrottleCfg == [rate |-> 0, autoRemove |-> FALSE]

\* the body getThrottle writes for the record r
\* (GetThrottleBodyNoAutoRemove: without reading r.AutoRemove)
GetThrottleBodyNoAutoRemove(r) ==
    IF r.rate = 0 THEN "no throttle override is set\n"
    ELSE "a throttle override is configured at " \o Str(Itoa(r.rate))
             \o "MB/s, autoremove==false\n"
GetThrottleBody(r) ==
    IF r.rate = 0 THEN "no throttle override is set\n"
    ELSE "a throttle override is configured at " \o Str(Itoa(r.rate))
             \o "MB/s, autoremove==" \o BoolText(r.autoRemove) \o "\n"

SetThrottleBody(rate, autoRemove) ==
    "throttle successfully set to " \o Str(Itoa(rate)) \o "MB/s, autoremove=="
        \o BoolText(autoRemove) \o "\n"

\* a write on its way to the znode: the record the handler built, and the method and
\* parameters of the request it was built from
NoPending ==
    [kind |-> "none", cfg |-> ZeroConfig, method |-> "",
     rateParam |-> <<>>, autoRemoveParam |-> <<>>]
\* a request as its handler sees it: method, path and the two query parameters
\* (empty where the handler never reads them; the path is not kept with a write
\* that is on its way)
Req(method, path, rateParam, autoRemoveParam) ==
    [method |-> method, path |-> path, rateParam |-> rateParam,
     autoRemoveParam |-> autoRemoveParam]
NoReq == Req("", "", <<>>, <<>>)
ReqOf(p) == Req(p.method, "", <<>>, <<>>)
\* the origin of a write: its kind and the parameters of the request behind it
WriteOf(p) == [kind |-> p.kind, rateParam |-> p.rateParam, autoRemoveParam |-> p.autoRemoveParam]
NoWrite == WriteOf(NoPending)
\* after: for a GET, the last write applied to the znode when it was read
\* zkCall: the ZooKeeper call the handler made before it answered ("none", "get", "set")
Response(op, status, body, after, req, zkCall) ==
    [op |-> op, status |-> status, body |-> body, after |-> after, req |-> req,
     zkCall |-> zkCall]
NoResponse == Response("none", 0, "", NoWrite, NoReq, "none")

ApiInit ==
    /\ seed \in Seeds
    /\ zk = seed
    /\ pc = "boot"
    /\ initGet = "none"
    /\ pending = [w \in Writers |-> NoPending]
    /\ resp = NoResponse
    /\ lastWrite = NoWrite

\* initAPI up to the start of the listener.  A failing ZooKeeper call ends in log.Fatal.
initAPI ==
    /\ pc = "boot"
    /\ \/ \* zk.Exists fails
          /\ pc' = "fatal"
          /\ UNCHANGED <<zk, lastWrite, initGet>>
       \/ \* the znode is missing and one of the two zk.Create calls fails
          /\ ~zk.exists
          /\ pc' = "fatal"
          /\ UNCHANGED <<zk, lastWrite, initGet>>
       \/ \* the znode is missing and is created empty
          /\ ~zk.exists
          /\ zk' = [exists |-> TRUE, data |-> <<>>]
          /\ pc' = "serving"
          /\ UNCHANGED <<lastWrite, initGet>>
       \/ \* the znode holds the legacy format and the write of the new format fails
          /\ zk.exists /\ Atoi(zk.data).ok
          /\ initGet' = "ok"
          /\ pc' = "fatal"
          /\ UNCHANGED <<zk, lastWrite>>
       \/ \* the znode holds the legacy format and is rewritten
          /\ zk.exists /\ Atoi(zk.data).ok
          /\ zk' = [zk EXCEPT !.data = setThrottleOverride(MigratedCfg(Atoi(zk.data).value))]
          /\ lastWrite' = [kind |-> "migrate", rateParam |-> <<>>, autoRemoveParam |-> <<>>]
          /\ initGet' = "ok"
          /\ pc' = "serving"
       \/ \* the znode holds anything else
          /\ zk.exists /\ ~Atoi(zk.data).ok
          /\ initGet' = "ok"
          /\ pc' = "serving"
          /\ UNCHANGED <<zk, lastWrite>>
       \/ \* zk.Get fails: r, _ := zk.Get(...) drops the error, r is empty and
          \* strconv.Atoi("") fails, so nothing is rewritten
          /\ zk.exists
          /\ initGet' = "failed"
          /\ pc' = "serving"
          /\ UNCHANGED <<zk, lastWrite>>
    /\ UNCHANGED <<seed, pending, resp>>

\* getThrottle; zkOk: whether zk.Get succeeds
getThrottle(r) ==
    LET o == getThrottleOverride(zk.data)
        q == Req(r.method, r.path, <<>>, <<>>)
    IN  /\ \E zkOk \in BOOLEAN :
           resp' = IF ~zkOk THEN Response("get", 200, ZkGetErrorText, lastWrite, q, "get")
                   ELSE IF ~o.ok THEN Response("get", 200, o.err, lastWrite, q, "get")
                   ELSE Response("get", 200, GetThrottleBody(o.cfg), lastWrite, q, "get")
        /\ UNCHANGED <<zk, seed, pc, initGet, pending, lastWrite>>

\* setThrottle up to the call of setThrottleOverride
\* (setThrottleNoReturn: without the return that follows the autoremove error)
setThrottleNoReturn(c, r) ==
    \E rateParam \in RateParams, autoRemoveParam \in AutoRemoveParams :
    LET rate == parseRateParam(rateParam)
        autoRemove == parseAutoRemoveParam(autoRemoveParam)
        q == Req(r.method, r.path, rateParam, autoRemoveParam)
    IN  IF ~rate.ok
        THEN /\ resp' = Response("set", 200, rate.err, NoWrite,
                                 Req(r.method, r.path, rateParam, <<>>), "none")
             /\ UNCHANGED <<zk, seed, pc, initGet, pending, lastWrite>>
        ELSE /\ resp' = IF ~autoRemove.ok
                        THEN Response("set", 200, autoRemove.err, NoWrite, q, "none")
                        ELSE resp
             /\ pending' = [pending EXCEPT ![c] =
                               [kind |-> "set", cfg |-> SetThrottleCfg(rate.value, autoRemove.value),
                                method |-> r.method,
                                rateParam |-> rateParam, autoRemoveParam |-> autoRemoveParam]]
             /\ UNCHANGED <<zk, seed, pc, initGet, lastWrite>>
setThrottle(c, r) ==
    \E rateParam \in RateParams, autoRemoveParam \in AutoRemoveParams :
    LET rate == parseRateParam(rateParam)
        autoRemove == parseAutoRemoveParam(autoRemoveParam)
        q == Req(r.method, r.path, rateParam, autoRemoveParam)
    IN  IF ~rate.ok
        THEN /\ resp' = Response("set", 200, rate.err, NoWrite,
                                 Req(r.method, r.path, rateParam, <<>>), "none")
             /\ UNCHANGED <<zk, seed, pc, initGet, pending, lastWrite>>
        ELSE IF ~autoRemove.ok
        THEN /\ resp' = Response("set", 200, autoRemove.err, NoWrite, q, "none")
             /\ UNCHANGED <<zk, seed, pc, initGet, pending, lastWrite>>
        ELSE /\ pending' = [pending EXCEPT ![c] =
                               [kind |-> "set", cfg |-> SetThrottleCfg(rate.value, autoRemove.value),
                                method |-> r.method,
                                rateParam |-> rateParam, autoRemoveParam |-> autoRemoveParam]]
             /\ UNCHANGED <<zk, seed, pc, initGet, resp, lastWrite>>

\* removeThrottle up to the call of setThrottleOverride
removeThrottle(c, r) ==
    /\ pending' = [pending EXCEPT ![c] =
                      [kind |-> "remove", cfg |-> RemoveThrottleCfg,
                       method |-> r.method,
                       rateParam |-> <<>>, autoRemoveParam |-> <<>>]]
    /\ UNCHANGED <<zk, seed, pc, initGet, resp, lastWrite>>

\* the default case of both method switches
disallowed(r) ==
    /\ resp' = Response("disallowed", 405, incorrectMethod, NoWrite,
                        Req(r.method, r.path, <<>>, <<>>), "none")
    /\ UNCHANGED <<zk, seed, pc, initGet, pending, lastWrite>>

throttleGetSet(c, r) ==
    CASE r.method = "GET" -> getThrottle(r)
      [] r.method = "POST" -> setThrottle(c, r)
      [] OTHER -> disallowed(r)

\* (throttleRemoveAnyMethod: without the switch on req.Method)
throttleRemoveAnyMethod(c, r) == removeThrottle(c, r)
throttleRemove(c, r) ==
    CASE r.method = "POST" -> removeThrottle(c, r)
      [] OTHER -> disallowed(r)

\* the handlers of the deprecated routes: each an alias of one operation of the routes
\* above, with the same semantics, serving that operation's method only
getThrottleDeprecated(r) ==
    CASE r.method = "GET" -> getThrottle(r)
      [] OTHER -> disallowed(r)

setThrottleDeprecated(c, r) ==
    CASE r.method = "POST" -> setThrottle(c, r)
      [] OTHER -> disallowed(r)

removeThrottleDeprecated(c, r) ==
    CASE r.method = "POST" -> removeThrottle(c, r)
      [] OTHER -> disallowed(r)

\* a client's request reaches the handler of its route
Request ==
    /\ pc = "serving"
    /\ \E c \in Clients, method \in Methods, path \in Paths :
          LET r == [method |-> method, path |-> path]
          IN  /\ pending[c].kind = "none"
              /\ CASE Route(path) = "throttleGetSet" -> throttleGetSet(c, r)
                   [] Route(path) = "throttleRemove" -> throttleRemove(c, r)
                   [] Route(path) = "getThrottleDeprecated" -> getThrottleDeprecated(r)
                   [] Route(path) = "setThrottleDeprecated" -> setThrottleDeprecated(c, r)
                   [] Route(path) = "removeThrottleDeprecated" -> removeThrottleDeprecated(c, r)

\* the handler's setThrottleOverride call and the response that follows it
Respond ==
    /\ pc = "serving"
    /\ \E c \in Clients, zkOk \in BOOLEAN :
          /\ pending[c].kind # "none"
          /\ IF zkOk
             THEN /\ zk' = [zk EXCEPT !.data = setThrottleOverride(pending[c].cfg)]
                  /\ lastWrite' = WriteOf(pending[c])
                  /\ resp' = Response(pending[c].kind, 200,
                                 IF pending[c].kind = "set"
                                 THEN SetThrottleBody(pending[c].cfg.rate, pending[c].cfg.autoRemove)
                                 ELSE "throttle successfully removed\n",
                                 NoWrite, ReqOf(pending[c]), "set")
             ELSE /\ resp' = Response(pending[c].kind, 200, ZkErrorText \o "\n", NoWrite,
                                      ReqOf(pending[c]), "set")
                  /\ UNCHANGED <<zk, lastWrite>>
          /\ seed' = IF zkOk THEN SeedReplaced ELSE seed
          /\ initGet' = IF zkOk THEN "none" ELSE initGet
          /\ pending' = [pending EXCEPT ![c] = NoPending]
    /\ UNCHANGED <<pc>>

\* the control loop reads an override with autoRemove set and decides to clear it
LoopObservesAutoRemove ==
    /\ pc = "serving"
    /\ pending["loop"].kind = "none"
    /\ getThrottleOverride(zk.data).ok
    /\ getThrottleOverride(zk.data).cfg.autoRemove
    /\ pending' = [pending EXCEPT !["loop"] =
                      [kind |-> "autoremove", cfg |-> ZeroConfig, method |-> "",
                       rateParam |-> <<>>, autoRemoveParam |-> <<>>]]
    /\ UNCHANGED <<zk, seed, pc, initGet, resp, lastWrite>>

\* the control loop's clear reaches the znode (or fails and is only logged)
LoopClears ==
    /\ pc = "serving"
    /\ pending["loop"].kind # "none"
    /\ \/ /\ zk' = [zk EXCEPT !.data = setThrottleOverride(pending["loop"].cfg)]
          /\ lastWrite' = WriteOf(pending["loop"])
          /\ seed' = SeedReplaced
          /\ initGet' = "none"
       \/ UNCHANGED <<zk, lastWrite, seed, initGet>>
    /\ pending' = [pending EXCEPT !["loop"] = NoPending]
    /\ UNCHANGED <<pc, resp>>

LimitsIdle ==
    /\ limCfg = [Minimum |-> 10, Maximum |-> 100, SourceMaximum |-> 100,
                 DestinationMaximum |-> 100, CapacityMap |-> EmptyMap]
    /\ limPc = "config"
    /\ limits = [lim |-> EmptyMap, err |-> ""]
    /\ call = NoCall

Init == ApiInit /\ LimitsIdle

Next ==
    \/ initAPI /\ UNCHANGED limVars
    \/ Request /\ UNCHANGED limVars
    \/ Respond /\ UNCHANGED limVars
    \/ LoopObservesAutoRemove /\ UNCHANGED limVars
    \/ LoopClears /\ UNCHANGED limVars

Spec == Init /\ [][Next]_vars

LimInit ==
    /\ limCfg \in NewLimitsConfigs
    /\ limPc = "config"
    /\ limits = [lim |-> EmptyMap, err |-> ""]
    /\ call = NoCall

CallNewLimits ==
    /\ limPc = "config"
    /\ limits' = NewLimits(limCfg)
    /\ limPc' = IF NewLimits(limCfg).err = "" THEN "ready" ELSE "failed"
    /\ UNCHANGED <<limCfg, call>>

CallHeadroom ==
    /\ limPc = "ready"
    /\ \E b \in Brokers, t \in RateValues :
          call' = [fn |-> "headroom", b |-> b, rt |-> "", t |-> t,
                   out |-> headroom(limits.lim, b, t)]
    /\ limPc' = "called"
    /\ UNCHANGED <<limCfg, limits>>

CallReplicationHeadroom ==
    /\ limPc = "ready"
    /\ \E b \in Brokers, rt \in ReplicaTypes, t \in RateValues :
          call' = [fn |-> "replicationHeadroom", b |-> b, rt |-> rt, t |-> t,
                   out |-> replicationHeadroom(limits.lim, b, rt, t)]
    /\ limPc' = "called"
    /\ UNCHANGED <<limCfg, limits>>

ApiIdle ==
    /\ zk = [exists |-> FALSE, data |-> <<>>]
    /\ seed = zk
    /\ pc = "boot"
    /\ initGet = "none"
    /\ pending = [w \in Writers |-> NoPending]
    /\ resp = NoResponse
    /\ lastWrite = NoWrite

LimitsInit == LimInit /\ ApiIdle

LimitsNext ==
    \/ CallNewLimits /\ UNCHANGED apiVars
    \/ CallHeadroom /\ UNCHANGED apiVars
    \/ CallReplicationHeadroom /\ UNCHANGED apiVars

SpecLimits == LimitsInit /\ [][LimitsNext]_vars

(***************************************************************************)
(* Claims about the Limits engine, checked under SpecLimits.               *)
(***************************************************************************)
Accepted == limPc \in {"ready", "called"}
\* a rate function was applied to a non-nil broker in a role the engine knows
RateCall ==
    /\ limPc = "called"
    /\ ~call.b.nil
    /\ call.fn = "replicationHeadroom" => call.rt \in {"leader", "follower"}
KnownType == call.b.InstanceType \in DOMAIN limits.lim

\* the same call with one input changed
Recomputed(b, t) ==
    IF call.fn = "headroom"
    THEN headroom(limits.lim, b, t)
    ELSE replicationHeadroom(limits.lim, b, call.rt, t)

\* C1: for every accepted Limits and every broker of a known instance type, headroom
\* and replicationHeadroom (source or destination role) return a rate that is not
\* below the configured Minimum.
C1_NeverBelowConfiguredMinimum ==
    (RateCall /\ KnownType) =>
        /\ call.out.outcome = "return"
        /\ call.out.rate >= limCfg.Minimum * Percent

\* C3: replicationHeadroom selects its inputs by role.  Source (leader): over-capacity
\* from outbound utilization, capped by the source portion.  Destination (follower):
\* over-capacity from inbound utilization, capped by the destination portion.  In both
\* the non-throttle term is max(outbound - previous rate, 0).  Any other role: (0, error),
\* whatever the broker is.
C3_RoleSelectsInputs ==
    (limPc = "called" /\ call.fn = "replicationHeadroom") =>
        LET l == limits.lim
            b == call.b
            cap == l[b.InstanceType]
            nonThrottle == IF b.NetTX - call.t > 0 THEN b.NetTX - call.t ELSE 0
            overOut == IF b.NetTX - cap > 0 THEN b.NetTX - cap ELSE 0
            overIn == IF b.NetRX - cap > 0 THEN b.NetRX - cap ELSE 0
            floor == l["minimum"] * 100
            asSource == (cap - nonThrottle - overOut) * l["srcMax"]
            asDestination == (cap - nonThrottle - overIn) * l["dstMax"]
        IN  /\ call.rt \notin {"leader", "follower"} =>
                /\ call.out.outcome = "return"
                /\ call.out.rate = 0
                /\ call.out.err # ""
            /\ (call.rt = "leader" /\ ~b.nil /\ KnownType) =>
                /\ call.out.err = ""
                /\ call.out.rate = IF asSource > floor THEN asSource ELSE floor
            /\ (call.rt = "follower" /\ ~b.nil /\ KnownType) =>
                /\ call.out.err = ""
                /\ call.out.rate = IF asDestination > floor THEN asDestination ELSE floor

\* witness of C3: a destination-role call whose inbound utilization exceeds the capacity
\* while the outbound does not, and whose rate is above the floor
C3_Witness ==
    /\ limPc = "called" /\ call.fn = "replicationHeadroom" /\ call.rt = "follower"
    /\ ~call.b.nil /\ KnownType
    /\ call.b.NetRX > limits.lim[call.b.InstanceType]
    /\ call.b.NetTX < limits.lim[call.b.InstanceType]
    /\ call.out.rate > limits.lim["minimum"] * Percent

\* C4: for a broker whose instance type is not a key of the configured capacity mapping,
\* headroom and replicationHeadroom (source or destination role) return exactly
\* (minimum, error).
C4_OutsideCapacityMapIsUnknown ==
    (RateCall /\ call.b.InstanceType \notin DOMAIN limCfg.CapacityMap) =>
        /\ call.out.outcome = "return"
        /\ call.out.rate = limits.lim["minimum"] * Percent
        /\ call.out.err # ""

\* C5: on an absent (nil) broker, headroom and replicationHeadroom (source or destination
\* role) return exactly the minimum rate together with an error, and fail in no other way.
C5_NilBrokerReturnsMinimum ==
    (/\ limPc = "called" /\ call.b.nil
     /\ call.fn = "replicationHeadroom" => call.rt \in {"leader", "follower"}) =>
        /\ call.out.outcome = "return"
        /\ call.out.rate = limits.lim["minimum"] * Percent
        /\ call.out.err # ""

\* C8: for a fixed Limits and instance type, the returned rate does not rise when the
\* broker's utilization (outbound or inbound) rises, and does not fall when the previous
\* rate rises.
C8_Monotone ==
    (RateCall /\ KnownType) =>
        /\ \A tx \in NetValues : tx >= call.b.NetTX =>
              Recomputed([call.b EXCEPT !.NetTX = tx], call.t).rate <= call.out.rate
        /\ \A rx \in NetValues : rx >= call.b.NetRX =>
              Recomputed([call.b EXCEPT !.NetRX = rx], call.t).rate <= call.out.rate
        /\ \A t \in RateValues : t >= call.t =>
              Recomputed(call.b, t).rate >= call.out.rate

\* C9: NewLimits returns an error and no Limits when Minimum <= 0 or a portion is <= 0
\* or > 100, and succeeds when Minimum > 0 and every portion is in (0, 100], 100 included.
C9_NewLimitsValidation ==
    limPc # "config" =>
        LET portions == {limCfg.Maximum, limCfg.SourceMaximum, limCfg.DestinationMaximum}
            bad == limCfg.Minimum <= 0 \/ \E p \in portions : p <= 0 \/ p > 100
            good == limCfg.Minimum > 0 /\ \A p \in portions : 0 < p /\ p <= 100
        IN  /\ bad => (limPc = "failed" /\ limits.err # "" /\ DOMAIN limits.lim = {})
            /\ good => (Accepted /\ limits.err = "" /\ "minimum" \in DOMAIN limits.lim)

\* witness of C9: a configuration with a portion of exactly 100 was accepted
C9_Witness ==
    /\ limPc = "ready"
    /\ limCfg.Maximum = 100 /\ limCfg.SourceMaximum = 100 /\ limCfg.DestinationMaximum = 100

\* C10: in every Limits NewLimits returns, whatever the keys of the capacity mapping,
\* the four scalar fields hold the configured values, and no later call changes them.
C10_ScalarFieldsAreConfigured ==
    Accepted =>
        /\ limits.lim["minimum"] = limCfg.Minimum
        /\ limits.lim["maximum"] = limCfg.Maximum
        /\ limits.lim["srcMax"] = limCfg.SourceMaximum
        /\ limits.lim["dstMax"] = limCfg.DestinationMaximum

\* C8's monotonicity where the capacity map left the scalar fields alone
MonotoneWithoutCollision ==
    (DOMAIN limCfg.CapacityMap) \cap ScalarKeys = {} => C8_Monotone

\* C1's floor where the capacity map left the scalar fields alone
FloorWithoutCollision ==
    (DOMAIN limCfg.CapacityMap) \cap ScalarKeys = {} => C1_NeverBelowConfiguredMinimum

(***************************************************************************)
(* Claims about the override record, checked under Spec.                   *)
(* The expected texts are written out here, digit by digit, and not        *)
(* computed with the model's Itoa, Atoi or Marshal.                        *)
(***************************************************************************)
\* the integers that occur as a rate parameter or as a legacy record
IntegerOf(cs) ==
    CASE cs = <<"0">> -> 0
      [] cs = <<"2", "0", "0">> -> 200
      [] cs = <<"1", "5", "0">> -> 150
      [] cs = <<"-", "5">> -> -5
IntegerText(cs) ==
    CASE cs = <<"0">> -> "0"
      [] cs = <<"2", "0", "0">> -> "200"
      [] cs = <<"1", "5", "0">> -> "150"
      [] cs = <<"-", "5">> -> "-5"
BareIntegers == {<<"0">>, <<"2", "0", "0">>, <<"1", "5", "0">>, <<"-", "5">>}
\* the value of an autoremove parameter (absent: false)
AutoRemoveOf(cs) == cs = <<"t", "r", "u", "e">>

\* the structured record with the given rate text and autoRemove, as stored
StoredForm(rateChars, autoRemove) ==
    <<"{", "\"", "r", "a", "t", "e", "\"", ":">> \o rateChars
    \o <<",", "\"", "a", "u", "t", "o", "r", "e", "m", "o", "v", "e", "\"", ":">>
    \o (IF autoRemove THEN <<"t", "r", "u", "e">> ELSE <<"f", "a", "l", "s", "e">>)
    \o <<"}">>

\* a GET that read the record (the ZooKeeper read did not fail)
GetAnswered == resp.op = "get" /\ resp.body # ZkGetErrorText

\* C2: a GET that follows a successful POST /throttle with rate r # 0 and autoremove a,
\* with no write in between, answers "a throttle override is configured at <r>MB/s,
\* autoremove==<a>\n"; after a successful POST /throttle/remove the stored record is
\* {rate:0, autoRemove:false} and a GET answers "no throttle override is set\n".
C2_OverrideRoundTrip ==
    /\ (GetAnswered /\ resp.after.kind = "set" /\ IntegerOf(resp.after.rateParam) # 0) =>
          resp.body = "a throttle override is configured at "
                          \o IntegerText(resp.after.rateParam) \o "MB/s, autoremove=="
                          \o (IF AutoRemoveOf(resp.after.autoRemoveParam) THEN "true" ELSE "false")
                          \o "\n"
    /\ (GetAnswered /\ resp.after.kind = "remove") =>
          resp.body = "no throttle override is set\n"
    /\ lastWrite.kind = "remove" => zk.data = StoredForm(<<"0">>, FALSE)

\* witness of C2: the README's exchange, rate=200 and autoremove=true, then GET
C2_Witness ==
    /\ resp.op = "get"
    /\ resp.after = [kind |-> "set", rateParam |-> <<"2", "0", "0">>,
                     autoRemoveParam |-> <<"t", "r", "u", "e">>]
    /\ resp.body = "a throttle override is configured at 200MB/s, autoremove==true\n"

\* no request or control-loop write has reached the znode since initAPI
NoWriteSinceInit == lastWrite.kind \in {"none", "migrate"}

\* C6: after initAPI, a record that held a bare integer n holds the structured form with
\* rate n and autoRemove false; a record that held anything else is unchanged.
C6_LegacyMigration ==
    (pc = "serving" /\ NoWriteSinceInit /\ seed.exists) =>
        IF seed.data \in BareIntegers
        THEN zk = [exists |-> TRUE, data |-> StoredForm(seed.data, FALSE)]
        ELSE zk = seed

\* C6 where initAPI's read of the record did not fail
MigrationWhenReadSucceeds == initGet = "ok" => C6_LegacyMigration

\* the record a write stores, from the request behind it
RecordOf(w) ==
    CASE w.kind = "set" -> StoredForm(w.rateParam, AutoRemoveOf(w.autoRemoveParam))
      [] w.kind \in {"remove", "autoremove"} -> StoredForm(<<"0">>, FALSE)
      [] w.kind = "migrate" -> StoredForm(seed.data, FALSE)

\* C7: under every interleaving of set and remove requests and the control loop's clear,
\* the stored record is, in both fields, the record of the last write applied.
C7_LastWriteWinsWhole ==
    lastWrite.kind # "none" => zk.data = RecordOf(lastWrite)

\* witness of C7: a set was applied while another client's set, differing in both fields,
\* and the control loop's clear were on their way
C7_Witness ==
    /\ lastWrite.kind = "set"
    /\ pending["loop"].kind = "autoremove"
    /\ \E c \in Clients :
          /\ pending[c].kind = "set"
          /\ pending[c].cfg.rate # IntegerOf(lastWrite.rateParam)
          /\ pending[c].cfg.autoRemove # AutoRemoveOf(lastWrite.autoRemoveParam)

\* the paths of the two mux routes
GetSetPaths == {"/throttle", "/throttle/"}
RemovePaths == {"/throttle/remove", "/throttle/remove/"}

\* a rate parameter that is missing or no integer, or an autoremove parameter that is
\* no boolean (absent: false)
BadParams(rateParam, autoRemoveParam) ==
    \/ rateParam \notin BareIntegers
    \/ autoRemoveParam \notin {<<>>, <<"t", "r", "u", "e">>, <<"f", "a", "l", "s", "e">>}

\* the error text of the parameter that is refused, the rate parameter first
ParseErrorText(rateParam, autoRemoveParam) ==
    IF rateParam \notin BareIntegers THEN parseRateParam(rateParam).err
    ELSE parseAutoRemoveParam(autoRemoveParam).err

\* a step that answers a POST on the set route
AnswersSetRequest ==
    /\ resp' # resp
    /\ resp'.req.method = "POST"
    /\ resp'.req.path \in GetSetPaths

C11_Step ==
    /\ (AnswersSetRequest /\ BadParams(resp'.req.rateParam, resp'.req.autoRemoveParam)) =>
          /\ resp'.body = ParseErrorText(resp'.req.rateParam, resp'.req.autoRemoveParam)
          /\ resp'.body # ""
          /\ resp'.zkCall = "none"
          /\ zk' = zk
          /\ pending' = pending
          /\ lastWrite' = lastWrite
    /\ \A c \in Clients :
          (pending'[c] # pending[c] /\ pending'[c].kind = "set") =>
              ~BadParams(pending'[c].rateParam, pending'[c].autoRemoveParam)

\* C11: a POST to /throttle whose rate parameter is missing or not an integer, or whose
\* autoremove parameter is not a boolean, is answered with the parse error text, and the
\* stored record after the request equals the record before it: the handler makes no
\* ZooKeeper call and no write with such parameters is ever on its way to the znode.
C11_BadParamsLeaveRecord == [][C11_Step]_vars

\* witness of C11: with the override of rate=200, autoremove=true stored, a POST with
\* rate=200 and autoremove=maybe was answered with the parse error, the record as before
C11_Witness ==
    /\ resp = Response("set", 200, "autoremove param must be a bool", NoWrite,
                       Req("POST", "/throttle", <<"2", "0", "0">>, <<"m", "a", "y", "b", "e">>),
                       "none")
    /\ lastWrite = [kind |-> "set", rateParam |-> <<"2", "0", "0">>,
                    autoRemoveParam |-> <<"t", "r", "u", "e">>]
    /\ zk.data = StoredForm(<<"2", "0", "0">>, TRUE)

\* a request with a method its route does not serve
WrongMethod(q) ==
    \/ q.path \in GetSetPaths /\ q.method \notin {"GET", "POST"}
    \/ q.path \in RemovePaths /\ q.method # "POST"

C12_Step ==
    /\ (resp' # resp /\ WrongMethod(resp'.req)) =>
          /\ resp'.status = 405
          /\ resp'.body = "disallowed method\n"
          /\ resp'.zkCall = "none"
          /\ zk' = zk
          /\ pending' = pending
          /\ lastWrite' = lastWrite
    \* a read of the record answers a GET, and on none of the four paths a wrong one
    /\ (resp' # resp /\ resp'.zkCall = "get") =>
          resp'.req.method = "GET" /\ resp'.req.path \notin RemovePaths
    \* a write is on its way for a POST only (a set from the get/set route, a remove
    \* from the remove route)
    /\ \A c \in Clients :
          (pending'[c] # pending[c] /\ pending'[c].kind # "none") =>
              pending'[c].method = "POST"
    /\ (resp' # resp /\ resp'.zkCall = "set") => resp'.req.method = "POST"

\* C12: a request to /throttle or /throttle/ with a method other than GET or POST, and a
\* request to /throttle/remove or /throttle/remove/ with a method other than POST (GET
\* included), is answered with status 405 and body "disallowed method\n", and neither
\* reads nor writes the stored override record.
C12_MethodGuard == [][C12_Step]_vars

\* witness of C12: with the override of rate=200, autoremove=true stored, a GET of
\* /throttle/remove was answered 405, the record as before
C12_Witness ==
    /\ resp = Response("disallowed", 405, "disallowed method\n", NoWrite,
                       Req("GET", "/throttle/remove", <<>>, <<>>), "none")
    /\ lastWrite = [kind |-> "set", rateParam |-> <<"2", "0", "0">>,
                    autoRemoveParam |-> <<"t", "r", "u", "e">>]
    /\ zk.data = StoredForm(<<"2", "0", "0">>, TRUE)

====
